---- MODULE Spec2Model ----
(***************************************************************************)
(* Model of the client configuration model _Options                        *)
(* (src/src/models/models/client.models.options.model.ts).                 *)
(*                                                                         *)
(* The only behaviour of the package is the constructor of _Options: it    *)
(* assigns environment, checks operator, assigns operator, checks baseUrl  *)
(* and assigns baseUrl.  TypeScript types are erased at run time, so the   *)
(* three arguments range over arbitrary JavaScript values.  The model      *)
(* follows one construction statement by statement (pc is the position in  *)
(* the constructor body) and then lets the caller write the public field   *)
(* enabled of the instance it received.                                    *)
(***************************************************************************)
EXTENDS Integers, Sequences, FiniteSets, TLC

(***************************************************************************)
(* Bounds of the value domains.                                            *)
(***************************************************************************)
MaxUrlLen == 4
MaxNum == 1

(***************************************************************************)
(* JavaScript values.  kind is the language type (null is its own kind),   *)
(* class tells objects apart, the other fields are the payload.            *)
(***************************************************************************)
Chars == {"h", "t", "p"}

MkVal(kind, class, bool, num, str, props) ==
    [kind |-> kind, class |-> class, bool |-> bool, num |-> num,
     str |-> str, props |-> props]

Undefined == MkVal("undefined", "", FALSE, 0, <<>>, {})

Null == MkVal("null", "", FALSE, 0, <<>>, {})

Bool(b) == MkVal("boolean", "", b, 0, <<>>, {})

Num(n) == MkVal("number", "", FALSE, n, <<>>, {})

Str(s) == MkVal("string", "", FALSE, 0, s, {})

\* a plain object literal with the given own properties
Obj(props) == MkVal("object", "Object", FALSE, 0, <<>>, props)

\* an array literal []
Arr == MkVal("object", "Array", FALSE, 0, <<>>, {})

\* new String(s): a wrapper object, not a primitive string
StrObj(s) == MkVal("object", "String", FALSE, 0, s, {})

\* a function value () => {}
Fun == MkVal("function", "Function", FALSE, 0, <<>>, {})

\* the static instances LedgerId.MAINNET, LedgerId.TESTNET, LedgerId.PREVIEWNET
LedgerId(name) == MkVal("object", "LedgerId", FALSE, 0, name, {})

LedgerIds == {LedgerId(<<"mainnet">>), LedgerId(<<"testnet">>),
              LedgerId(<<"previewnet">>)}

\* the properties IHashgraph.IOperator requires
OperatorProps == {"accountId", "privateKey"}

\* all strings over Chars of length at most n
StringsUpTo(n) == UNION {[1..k -> Chars] : k \in 0..n}

\* the URLs the documentation and the specification use as examples,
\* shortened to one-letter hosts
SampleUrls ==
    { <<"h","t","t","p",":","/","/","x">>,
      <<"h","t","t","p","s",":","/","/","x">>,
      <<"h","t","t","p","s",":","/","/","x","/">>,
      <<"f","t","p",":","/","/","x">>,
      <<"x",".","c","o","m">>,
      <<"H","T","T","P",":","/","/","x">>,
      <<"h","t","t","p","x">> }

UrlStrings == StringsUpTo(MaxUrlLen) \cup SampleUrls

Numbers == {Num(n) : n \in 0..MaxNum}

Primitives == {Undefined, Null, Bool(TRUE), Bool(FALSE)} \cup Numbers

\* values a caller may pass as environment
EnvironmentValues ==
    LedgerIds \cup {Undefined, Null, Str(<<"b","o","g","u","s">>), Num(0)}

\* values a caller may pass as operator
OperatorValues ==
    Primitives
      \cup {Str(<<>>), Str(<<"h","t","t","p">>), Fun, Arr, StrObj(<<"o","p">>)}
      \cup {Obj(ps) : ps \in SUBSET OperatorProps}

\* values a caller may pass as baseUrl
BaseUrlValues ==
    Primitives
      \cup {Obj({}), Arr, Fun}
      \cup {StrObj(s) : s \in SampleUrls}
      \cup {Str(s) : s \in UrlStrings}

\* values a caller may write to the field enabled
EnabledValues ==
    {Bool(TRUE), Bool(FALSE), Undefined, Null, Num(1), Str(<<"h">>)}

(***************************************************************************)
(* Language operations the constructor uses.                               *)
(***************************************************************************)
\* typeof v
TypeOf(v) == IF v.kind = "null" THEN "object" ELSE v.kind

\* ToBoolean(v), the meaning of !v
Truthy(v) ==
    CASE v.kind = "undefined" -> FALSE
      [] v.kind = "null"      -> FALSE
      [] v.kind = "boolean"   -> v.bool
      [] v.kind = "number"    -> v.num # 0
      [] v.kind = "string"    -> Len(v.str) > 0
      [] OTHER                -> TRUE

\* s.startsWith(prefix)
StartsWith(s, prefix) ==
    /\ Len(s) >= Len(prefix)
    /\ SubSeq(s, 1, Len(prefix)) = prefix

HttpPrefix == <<"h","t","t","p">>

InvalidOperatorMsg == "Invalid operator information"

InvalidBaseUrlMsg == "Invalid base URL"

(***************************************************************************)
(* State.                                                                  *)
(***************************************************************************)
VARIABLES
    pc,           \* position in the constructor body, or idle/returned/thrown
    environment,  \* the constructor's parameters
    operator,
    baseUrl,
    this,         \* the fields of the instance under construction
    assigned,     \* the fields that have been written
    error,        \* the message of the Error thrown, "" if none
    enabledArg,   \* the value the caller last wrote to enabled
    cls,          \* the class being constructed: "_Options" or "Client.Options"
    prior         \* what the caller keeps of its earlier _Options construction

vars == <<pc, environment, operator, baseUrl, this, assigned, error, enabledArg,
          cls, prior>>

FieldNames == {"enabled", "environment", "operator", "baseUrl"}

\* a freshly allocated instance: the declared fields hold no value yet
Blank == [enabled |-> Undefined, environment |-> Undefined,
          operator |-> Undefined, baseUrl |-> Undefined]

Init ==
    /\ pc = "idle"
    /\ environment = Undefined
    /\ operator = Undefined
    /\ baseUrl = Undefined
    /\ this = Blank
    /\ assigned = {}
    /\ error = ""
    /\ enabledArg = Undefined
    /\ cls = "_Options"
    /\ prior = [pc |-> "idle", error |-> "", this |-> Blank, assigned |-> {},
                args |-> <<Undefined, Undefined, Undefined>>]

\* new _Options(env, op, url): bind the parameters and enter the body
New(env, op, url) ==
    /\ pc = "idle"
    /\ environment' = env
    /\ operator' = op
    /\ baseUrl' = url
    /\ this' = Blank
    /\ assigned' = {}
    /\ pc' = "L195"
    /\ UNCHANGED <<error, enabledArg>>
    /\ UNCHANGED <<cls, prior>>

\* variant: the constructor enforces the documented rule "Environment must
\* be a valid LedgerId value" before the assignment
AssignEnvironment_Validated ==
    /\ pc = "L195"
    /\ IF environment \in LedgerIds
         THEN /\ this' = [this EXCEPT !.environment = environment]
              /\ assigned' = assigned \cup {"environment"}
              /\ pc' = "L197"
              /\ error' = error
         ELSE /\ pc' = "thrown"
              /\ error' = "Invalid environment"
              /\ UNCHANGED <<this, assigned>>
    /\ UNCHANGED <<environment, operator, baseUrl, enabledArg>>
    /\ UNCHANGED <<cls, prior>>

\* this.environment = environment
AssignEnvironment ==
    /\ pc = "L195"
    /\ this' = [this EXCEPT !.environment = environment]
    /\ assigned' = assigned \cup {"environment"}
    /\ pc' = "L197"
    /\ UNCHANGED <<environment, operator, baseUrl, error, enabledArg>>
    /\ UNCHANGED <<cls, prior>>

\* variant: the null test is forgotten (typeof null is 'object')
OperatorInvalid_TypeofOnly(op) == TypeOf(op) # "object"

\* !operator || typeof operator !== 'object'
OperatorInvalid(op) == ~Truthy(op) \/ TypeOf(op) # "object"

\* variant: the two checks are written in the other order
CheckOperator_UrlFirst ==
    /\ pc = "L197"
    /\ IF \/ ~Truthy(baseUrl)
          \/ TypeOf(baseUrl) # "string"
          \/ ~StartsWith(baseUrl.str, HttpPrefix)
         THEN pc' = "thrown" /\ error' = InvalidBaseUrlMsg
         ELSE IF OperatorInvalid(operator)
                THEN pc' = "thrown" /\ error' = InvalidOperatorMsg
                ELSE pc' = "L200" /\ error' = error
    /\ UNCHANGED <<environment, operator, baseUrl, this, assigned, enabledArg>>
    /\ UNCHANGED <<cls, prior>>

\* variant: this.operator is written before the check instead of after it
CheckOperator_AssignFirst ==
    /\ pc = "L197"
    /\ this' = [this EXCEPT !.operator = operator]
    /\ assigned' = assigned \cup {"operator"}
    /\ IF OperatorInvalid(operator)
         THEN pc' = "thrown" /\ error' = InvalidOperatorMsg
         ELSE pc' = "L200" /\ error' = error
    /\ UNCHANGED <<environment, operator, baseUrl, enabledArg>>
    /\ UNCHANGED <<cls, prior>>

\* if (<operator invalid>) throw new Error('Invalid operator information')
CheckOperator ==
    /\ pc = "L197"
    /\ IF OperatorInvalid(operator)
         THEN pc' = "thrown" /\ error' = InvalidOperatorMsg
         ELSE pc' = "L200" /\ error' = error
    /\ UNCHANGED <<environment, operator, baseUrl, this, assigned, enabledArg>>
    /\ UNCHANGED <<cls, prior>>

\* this.operator = operator
AssignOperator ==
    /\ pc = "L200"
    /\ this' = [this EXCEPT !.operator = operator]
    /\ assigned' = assigned \cup {"operator"}
    /\ pc' = "L202"
    /\ UNCHANGED <<environment, operator, baseUrl, error, enabledArg>>
    /\ UNCHANGED <<cls, prior>>

\* variant: the prefix test is forgotten
BaseUrlInvalid_NoPrefix(url) == ~Truthy(url) \/ TypeOf(url) # "string"

\* !baseUrl || typeof baseUrl !== 'string' || !baseUrl.startsWith('http')
BaseUrlInvalid(url) ==
    \/ ~Truthy(url)
    \/ TypeOf(url) # "string"
    \/ ~StartsWith(url.str, HttpPrefix)

\* if (<baseUrl invalid>) throw new Error('Invalid base URL')
CheckBaseUrl ==
    /\ pc = "L202"
    /\ IF BaseUrlInvalid(baseUrl)
         THEN pc' = "thrown" /\ error' = InvalidBaseUrlMsg
         ELSE pc' = "L205" /\ error' = error
    /\ UNCHANGED <<environment, operator, baseUrl, this, assigned, enabledArg>>
    /\ UNCHANGED <<cls, prior>>

\* s without a trailing slash
StripTrailingSlash(s) ==
    IF Len(s) > 0 /\ s[Len(s)] = "/" THEN SubSeq(s, 1, Len(s) - 1) ELSE s

\* variant: the URL is normalised ("Should not end with a trailing slash")
AssignBaseUrl_Normalised ==
    /\ pc = "L205"
    /\ this' = [this EXCEPT !.baseUrl = Str(StripTrailingSlash(baseUrl.str))]
    /\ assigned' = assigned \cup {"baseUrl"}
    /\ pc' = "returned"
    /\ UNCHANGED <<environment, operator, baseUrl, error, enabledArg>>
    /\ UNCHANGED <<cls, prior>>

\* this.baseUrl = baseUrl, and the instance is returned to the caller
AssignBaseUrl ==
    /\ pc = "L205"
    /\ this' = [this EXCEPT !.baseUrl = baseUrl]
    /\ assigned' = assigned \cup {"baseUrl"}
    /\ pc' = "returned"
    /\ UNCHANGED <<environment, operator, baseUrl, error, enabledArg>>
    /\ UNCHANGED <<cls, prior>>

\* options.enabled = v, by the caller that holds the returned instance
SetEnabled(v) ==
    /\ pc = "returned"
    /\ this' = [this EXCEPT !.enabled = v]
    /\ assigned' = assigned \cup {"enabled"}
    /\ enabledArg' = v
    /\ UNCHANGED <<pc, environment, operator, baseUrl, error>>
    /\ UNCHANGED <<cls, prior>>

\* variant: an explicit constructor that forwards only two of its arguments
NewClientOptions_DropsBaseUrl ==
    /\ cls = "_Options"
    /\ pc \in {"returned", "thrown"}
    /\ prior' = [pc |-> pc, error |-> error, this |-> this,
                 assigned |-> assigned,
                 args |-> <<environment, operator, baseUrl>>]
    /\ cls' = "Client.Options"
    /\ baseUrl' = Undefined
    /\ this' = Blank
    /\ assigned' = {}
    /\ error' = ""
    /\ pc' = "L195"
    /\ UNCHANGED <<environment, operator, enabledArg>>

\* new Client.Options(environment, operator, baseUrl) with the arguments of
\* the finished _Options construction, whose outcome the caller keeps.
\* Options extends _Options {} has no constructor of its own: the implicit
\* constructor(...args) { super(...args) } allocates the instance and enters
\* the body of _Options with the same three arguments.  The class decorator
\* ApiSchema runs once when the class is defined, not at construction.
NewClientOptions ==
    /\ cls = "_Options"
    /\ pc \in {"returned", "thrown"}
    /\ prior' = [pc |-> pc, error |-> error, this |-> this,
                 assigned |-> assigned,
                 args |-> <<environment, operator, baseUrl>>]
    /\ cls' = "Client.Options"
    /\ this' = Blank
    /\ assigned' = {}
    /\ error' = ""
    /\ pc' = "L195"
    /\ UNCHANGED <<environment, operator, baseUrl, enabledArg>>

Next ==
    \/ /\ pc = "idle"
       /\ \E env \in EnvironmentValues, op \in OperatorValues, url \in BaseUrlValues :
             New(env, op, url)
    \/ AssignEnvironment
    \/ CheckOperator
    \/ AssignOperator
    \/ CheckBaseUrl
    \/ AssignBaseUrl
    \/ \E v \in EnabledValues : SetEnabled(v)
    \/ NewClientOptions

Spec == Init /\ [][Next]_vars

(***************************************************************************)
(* Vocabulary of the properties, stated on the values themselves and not   *)
(* through the constructor's tests.                                        *)
(***************************************************************************)
Done == pc \in {"returned", "thrown"}

\* a non-null value of object type
IsNonNullObject(v) == v.kind = "object"

\* the first four characters of s are h, t, t, p
HasHttpPrefix(s) ==
    Len(s) >= 4 /\ s[1] = "h" /\ s[2] = "t" /\ s[3] = "t" /\ s[4] = "p"

\* a non-empty string starting with "http"
IsHttpString(v) == v.kind = "string" /\ Len(v.str) > 0 /\ HasHttpPrefix(v.str)

\* null, undefined, the empty string, a non-string, or a string that does
\* not start with "http"
IsRejectableBaseUrl(v) ==
    \/ v = Null
    \/ v = Undefined
    \/ v = Str(<<>>)
    \/ v.kind # "string"
    \/ (v.kind = "string" /\ ~HasHttpPrefix(v.str))

\* s begins with the sequence of characters p
BeginsWith(s, p) ==
    Len(s) >= Len(p) /\ \A i \in 1..Len(p) : s[i] = p[i]

HttpUrl == <<"h","t","t","p",":","/","/","x">>

FtpUrl == <<"f","t","p",":","/","/","x">>

Bogus == Str(<<"b","o","g","u","s">>)

C2_BadOperatorThrowsInvalidOperator ==
    (Done /\ ~IsNonNullObject(operator))
        => pc = "thrown" /\ error = InvalidOperatorMsg

\* construct(TESTNET, null, "http://x") has thrown the operator error
C2_Witness ==
    /\ pc = "thrown"
    /\ operator = Null
    /\ baseUrl = Str(HttpUrl)
    /\ error = InvalidOperatorMsg

C4_OperatorCheckedBeforeBaseUrl ==
    /\ pc \in {"L202", "L205", "returned"} => IsNonNullObject(operator)
    /\ (pc = "thrown" /\ ~IsNonNullObject(operator) /\ IsRejectableBaseUrl(baseUrl))
          => (error = InvalidOperatorMsg /\ error # InvalidBaseUrlMsg)

\* construct(TESTNET, null, null) has thrown the operator error
C4_Witness ==
    /\ pc = "thrown"
    /\ operator = Null
    /\ baseUrl = Null
    /\ error = InvalidOperatorMsg

C6_NoPartialSuccess ==
    Done => \/ pc = "thrown"
            \/ (pc = "returned" /\ assigned = FieldNames)

(***************************************************************************)
(* C7: the constructor returns only for an operator that is an object      *)
(* carrying both accountId and privateKey.                                 *)
(***************************************************************************)
C7_OperatorHasRequiredProperties ==
    pc = "returned"
        => (IsNonNullObject(operator) /\ OperatorProps \subseteq operator.props)

(***************************************************************************)
(* C8: the constructor returns only for an environment that is one of the  *)
(* LedgerId values.                                                        *)
(***************************************************************************)
C8_EnvironmentIsLedgerId ==
    pc = "returned" => environment \in LedgerIds

(***************************************************************************)
(* C9: the constructor returns only for a baseUrl that carries the         *)
(* protocol http:// or https://.                                           *)
(***************************************************************************)
C9_BaseUrlHasHttpProtocol ==
    pc = "returned"
        => /\ baseUrl.kind = "string"
           /\ \/ BeginsWith(baseUrl.str, <<"h","t","t","p",":","/","/">>)
              \/ BeginsWith(baseUrl.str, <<"h","t","t","p","s",":","/","/">>)

(***************************************************************************)
(* C10: every step that ends in a throw leaves exactly the fields written  *)
(* before the failing check: environment alone when the operator is        *)
(* invalid, environment and operator when the operator is valid and the    *)
(* baseUrl is not; enabled, and the fields after the failing check, hold   *)
(* no value; and no step of a construction changes the arguments.          *)
(***************************************************************************)
C10_FailureFrame ==
    [][ /\ (pc' = "thrown" /\ ~IsNonNullObject(operator'))
            => /\ assigned' = {"environment"}
               /\ this' = [Blank EXCEPT !.environment = environment']
        /\ (pc' = "thrown" /\ IsNonNullObject(operator'))
            => /\ assigned' = {"environment", "operator"}
               /\ this' = [Blank EXCEPT !.environment = environment',
                                        !.operator = operator']
        /\ pc # "idle" => UNCHANGED <<environment, operator, baseUrl>>
      ]_vars

\* construct("bogus", {}, "ftp://x") has thrown with two fields written
C10_Witness ==
    /\ pc = "thrown"
    /\ environment = Bogus
    /\ operator = Obj({})
    /\ baseUrl = Str(FtpUrl)
    /\ assigned = {"environment", "operator"}
    /\ this.baseUrl = Undefined
    /\ this.enabled = Undefined

====
